---- MODULE Spec2Model ----
(***************************************************************************)
(* Model of market_tracker: the two file sources (data.py ParquetFiles,    *)
(* CsvFiles), the currency multiplier table and the memoised lazy dataset  *)
(* (data.py MarketData), and the read queries of api.py / query_logic.py.  *)
(*                                                                         *)
(* Conventions.                                                            *)
(*  - A nullable cell is <<>> (null) or <<v>> (the value v).               *)
(*  - A Datetime is modelled by its day ordinal: both sources produce      *)
(*    midnight values (strptime with "%Y-%m-%d"; daily scraper data).      *)
(*  - A date string on the wire or in a text file is <<format, day>>.      *)
(*  - A frame is a sequence of rows; a row is a record over its columns.   *)
(*  - polars leaves the row order of unique() and the order of ties in     *)
(*    sort() open; the model keeps first occurrences and sorts stably.     *)
(*    No property below depends on that order.                             *)
(***************************************************************************)
EXTENDS Integers, Sequences, FiniteSets, Bags, TLC

VARIABLES
    parquet_files,       \* rows stored under parquet_files/**/*.parquet
    csv_files,           \* text files under csv_files/**/*.csv
    yaml_file,           \* currencies.yaml: <<>> (missing) or <<dict>>
    _lazy_frame,         \* MarketData._lazy_frame: <<>> (None) or <<plan>>
    _currencies_frame,   \* MarketData._currencies_frame: <<>> or <<frame>>
    builds,              \* number of LazyFrame plans constructed so far
    pc,                  \* per caller: position inside its query
    local,               \* per caller: the query's local variables
    res                  \* per caller: what the last query gave its caller

vars == <<parquet_files, csv_files, yaml_file, _lazy_frame, _currencies_frame,
          builds, pc, local, res>>

----------------------------------------------------------------------------
(* Bounds of the model.                                                    *)

MaxDate == 2
MaxVal == 1
MaxMult == 3
MaxRows == 2

Dates == 1..MaxDate
TickerSyms == {"A", "B"}
None == <<>>
Some(v) == <<v>>
Vals == {None} \cup {Some(v) : v \in 0..MaxVal}
Multipliers == 3..MaxMult

DateFormat == "%Y-%m-%d"
OtherFormat == "%d/%m/%Y"
Wire(d) == <<DateFormat, d>>

Schema == <<"Date", "Ticker", "Close", "MarketCap">>
SchemaSet == {Schema[i] : i \in 1..Len(Schema)}

----------------------------------------------------------------------------
(* Frame helpers: what the polars verbs used by the code do to rows.       *)

RECURSIVE FlatMap(_, _)
FlatMap(F(_), s) ==
    IF s = <<>> THEN <<>> ELSE F(Head(s)) \o FlatMap(F, Tail(s))

Map(F(_), s) == [i \in 1..Len(s) |-> F(s[i])]

Range(s) == {s[i] : i \in 1..Len(s)}

RECURSIVE SetToSeq(_)
SetToSeq(S) ==
    IF S = {} THEN <<>>
    ELSE LET x == CHOOSE y \in S : TRUE IN <<x>> \o SetToSeq(S \ {x})

\* datetime.strptime(s, "%Y-%m-%d") / str.strptime(pl.Datetime, "%Y-%m-%d"):
\* the day of a string in that format; any other string does not parse.
Parses(s) == s[1] = DateFormat
strptime(s) == s[2]
\* row["Date"].strftime("%Y-%m-%d")
strftime(d) == <<DateFormat, d>>

\* pl.col(..).cast(pl.Datetime) on a stored timestamp column.
CastDatetime(d) == d

\* .cast(pl.Float64): null stays null, a number keeps its value.
CastFloat64(v) == IF v = None THEN None ELSE Some(v[1])

\* pl.col("Close") * pl.col("Multiplier"): null if either operand is null.
Mul(a, b) == IF a = None \/ b = None THEN None ELSE Some(a[1] * b[1])

----------------------------------------------------------------------------
(* data.py: the two sources.                                               *)

\* ParquetFiles._enforce_schema: add the schema columns the frame lacks as
\* null, then select the schema columns.
ParquetFiles_enforce_schema(cols, r) ==
    [c \in SchemaSet |-> IF c \in cols THEN r[c] ELSE None]

\* ParquetFiles.lazy_frame
ParquetFiles_lazy_frame(rows) ==
    Map(LAMBDA r : ParquetFiles_enforce_schema(SchemaSet,
                       [r EXCEPT !.Date = CastDatetime(r.Date)]), rows)

\* CsvFiles._enforce_schema
CsvFiles_enforce_schema(cols, r) ==
    [c \in SchemaSet |-> IF c \in cols THEN r[c] ELSE None]

\* Variant: the Ticker column is filled from the file's base name.
CsvFiles_lazy_frame_FromStem(files) ==
    FlatMap(LAMBDA f :
                Map(LAMBDA r : [CsvFiles_enforce_schema(f.cols,
                                   [r EXCEPT !.Date = strptime(r.Date)])
                                EXCEPT !.Ticker = Some(f.stem)],
                    f.rows),
            files)

\* CsvFiles.lazy_frame: every row of every file, Date parsed, schema enforced.
\* The file's name (f.stem) is not read.
CsvFiles_lazy_frame(files) ==
    FlatMap(LAMBDA f :
                Map(LAMBDA r : CsvFiles_enforce_schema(f.cols,
                                   [r EXCEPT !.Date = strptime(r.Date)]),
                    f.rows),
            files)

\* A text file holds a Date that is not in the fixed format: the scan fails
\* when the frame is collected.
CsvParseFails(files) ==
    \E i \in 1..Len(files) : \E j \in 1..Len(files[i].rows) :
        ~Parses(files[i].rows[j].Date)

----------------------------------------------------------------------------
(* data.py: MarketData.currencies and MarketData.df.                       *)

\* rows = [{"Ticker": ticker, "Multiplier": info["multiplier"]} for ...]
CurrencyRows(dict) ==
    Map(LAMBDA t : [Ticker |-> t, Multiplier |-> Some(dict[t])],
        SetToSeq(DOMAIN dict))

\* .join(self.currencies, on="Ticker", how="left"): one output row per
\* matching right row, one with a null Multiplier when there is none.
LeftJoinCurrencies(raw, cur) ==
    FlatMap(LAMBDA r :
                LET ms == SelectSeq(cur, LAMBDA c : Some(c.Ticker) = r.Ticker)
                IN  IF ms = <<>>
                    THEN <<[Date |-> r.Date, Ticker |-> r.Ticker, Close |-> r.Close,
                            MarketCap |-> r.MarketCap, Multiplier |-> None]>>
                    ELSE Map(LAMBDA c : [Date |-> r.Date, Ticker |-> r.Ticker,
                                         Close |-> r.Close, MarketCap |-> r.MarketCap,
                                         Multiplier |-> c.Multiplier], ms),
            raw)

\* Variant: a MarketCap carried by the source is kept, the multiplier only
\* fills the gaps.
AdjustMarketCap_SourceWins(r) ==
    [r EXCEPT !.MarketCap =
        CastFloat64(IF r.MarketCap # None THEN r.MarketCap
                    ELSE Mul(r.Close, r.Multiplier))]

\* pl.when(Multiplier.is_not_null()).then(Close * Multiplier)
\*   .otherwise(MarketCap).cast(pl.Float64).alias("MarketCap")
AdjustMarketCap(r) ==
    [r EXCEPT !.MarketCap =
        CastFloat64(IF r.Multiplier # None THEN Mul(r.Close, r.Multiplier)
                    ELSE r.MarketCap)]

\* Variant: one row per (Date, Ticker).
UniqueKey_DateTicker(r) == <<r.Date, r.Ticker>>

\* .unique(subset=["Date", "Ticker", "MarketCap", "Close"])
UniqueKey(r) == <<r.Date, r.Ticker, r.MarketCap, r.Close>>

RECURSIVE Unique(_, _)
Unique(s, seen) ==
    IF s = <<>> THEN <<>>
    ELSE IF UniqueKey(Head(s)) \in seen THEN Unique(Tail(s), seen)
         ELSE <<Head(s)>> \o Unique(Tail(s), seen \cup {UniqueKey(Head(s))})

\* .sort(["Date"], descending=True)
RECURSIVE InsertDesc(_, _)
InsertDesc(r, s) ==
    IF s = <<>> THEN <<r>>
    ELSE IF Head(s).Date >= r.Date THEN <<Head(s)>> \o InsertDesc(r, Tail(s))
         ELSE <<r>> \o s

RECURSIVE SortDateDesc(_)
SortDateDesc(s) ==
    IF s = <<>> THEN <<>>
    ELSE InsertDesc(s[Len(s)], SortDateDesc(SubSeq(s, 1, Len(s) - 1)))

\* .select(["Date", "Ticker", "MarketCap", "Close"])
SelectSchema(r) ==
    [Date |-> r.Date, Ticker |-> r.Ticker, MarketCap |-> r.MarketCap, Close |-> r.Close]

\* The plan stored by MarketData.df, evaluated on the files as they are when
\* it is collected: concat, left join, adjusted MarketCap, unique, sort, select.
MarketData_df(pq, csv, cur) ==
    LET raw_data == ParquetFiles_lazy_frame(pq) \o CsvFiles_lazy_frame(csv)
        joined   == LeftJoinCurrencies(raw_data, cur)
        adjusted == Map(AdjustMarketCap, joined)
    IN  Map(SelectSchema, SortDateDesc(Unique(adjusted, {})))

----------------------------------------------------------------------------
(* Inputs: file contents and configuration tables.                         *)

ParquetRows == [Date : Dates, Ticker : {Some(t) : t \in TickerSyms},
                Close : Vals, MarketCap : Vals]

\* A text file always has Date and Close; Ticker and MarketCap columns may
\* be absent, and the cells of an absent column are null.
CsvColumnSets == {SchemaSet \ X : X \in SUBSET {"Ticker", "MarketCap"}}
CsvRowsOf(cols, formats) ==
    {r \in [Date : {<<f, d>> : f \in formats, d \in Dates},
            Ticker : {None} \cup {Some(t) : t \in TickerSyms},
            Close : Vals, MarketCap : Vals] :
        /\ ("Ticker" \in cols) = (r.Ticker # None)
        /\ ("MarketCap" \notin cols) => r.MarketCap = None}

SeqsUpTo(S, n) == UNION {[1..k -> S] : k \in 0..n}

CsvFileSets(n, formats) ==
    {<<>>} \cup
    UNION {{<<[stem |-> st, cols |-> cs, rows |-> rs]>> :
              st \in TickerSyms, rs \in SeqsUpTo(CsvRowsOf(cs, formats), n)} :
           cs \in CsvColumnSets}

\* currencies.yaml: a non-empty dict ticker -> multiplier.
Dicts == UNION {[S -> Multipliers] : S \in (SUBSET TickerSyms) \ {{}}}

RowCount(csv) == IF csv = <<>> THEN 0 ELSE Len(csv[1].rows)

Callers == {1, 2}
Idle == [c \in Callers |-> "idle"]
NoLocal == [c \in Callers |-> <<>>]
NoRes == [c \in Callers |-> <<>>]

----------------------------------------------------------------------------
(* Spec: the life of the cache slot. Callers run queries; each query reads *)
(* the property Tickers.df (twice for get_ratio) and collects the frame.   *)
(* The files and the configuration may be rewritten between any two steps. *)

Impls == {"api", "query_logic"}
Ops == {"get_available_tickers", "get_prices", "get_date_range", "get_ratio",
        "get_marketcap"}

\* How often the body of an operation evaluates Tickers.df.
Accesses(op) == IF op = "get_ratio" THEN 2 ELSE 1

LifeRow(d) == [Date |-> d, Ticker |-> Some("A"), Close |-> Some(1), MarketCap |-> None]
LifeParquet == {<<>>, <<LifeRow(MaxDate)>>}
LifeCsvFile(f) ==
    [stem |-> "B", cols |-> SchemaSet,
     rows |-> <<[Date |-> <<f, 1>>, Ticker |-> Some("B"), Close |-> Some(1),
                 MarketCap |-> Some(1)]>>]
LifeCsv == {<<>>, <<LifeCsvFile(DateFormat)>>, <<LifeCsvFile(OtherFormat)>>}
LifeYaml == {None, Some([t \in {"A"} |-> MaxMult])}

Init ==
    /\ parquet_files \in LifeParquet
    /\ csv_files \in LifeCsv
    /\ yaml_file \in LifeYaml
    /\ _lazy_frame = None
    /\ _currencies_frame = None
    /\ builds = 0
    /\ pc = Idle
    /\ local = NoLocal
    /\ res = NoRes

Running(c) == pc[c] \notin {"idle", "done"}

\* api.py declares its handlers "async def" and they never await: the event
\* loop runs one handler to its end before the next. The functions of
\* query_logic.py are plain functions; threads calling them interleave.
MayStep(c) ==
    local[c].impl = "api" =>
        \A o \in Callers \ {c} : ~(Running(o) /\ local[o].impl = "api")

Goto(c, l) == pc' = [pc EXCEPT ![c] = l]

\* What a finished query leaves with its caller: the exception it raised, or
\* the collected frame; with it, whether the query ran the build branch of
\* df, the plan it stored (0: none) and the plans df returned to it.
Raised(e, l) ==
    [kind |-> "error", error |-> e, attempted |-> l.attempted,
     stored |-> l.stored, ids |-> {l.dfs[i].id : i \in 1..Len(l.dfs)}]
Returned(rows, l) ==
    [kind |-> "frame", rows |-> rows, attempted |-> l.attempted,
     stored |-> l.stored, ids |-> {l.dfs[i].id : i \in 1..Len(l.dfs)}]

\* A caller enters one of the query functions.
Call(c) ==
    /\ ~Running(c)
    /\ \E impl \in Impls, op \in Ops :
          /\ impl = "api" => \A o \in Callers \ {c} :
                                ~(Running(o) /\ local[o].impl = "api")
          /\ local' = [local EXCEPT ![c] =
                          [impl |-> impl, need |-> Accesses(op),
                           attempted |-> FALSE, stored |-> 0, cur |-> None,
                           dfs |-> <<>>]]
    /\ Goto(c, "df_check")
    /\ res' = [res EXCEPT ![c] = <<>>]
    /\ UNCHANGED <<parquet_files, csv_files, yaml_file, _lazy_frame,
                   _currencies_frame, builds>>

\* MarketData.df: if self._lazy_frame is None:
DfCheck(c) ==
    /\ pc[c] = "df_check" /\ MayStep(c)
    /\ IF _lazy_frame = None
       THEN /\ Goto(c, "cur_check")
            /\ local' = [local EXCEPT ![c].attempted = TRUE]
       ELSE /\ Goto(c, "df_return")
            /\ UNCHANGED local
    /\ UNCHANGED <<parquet_files, csv_files, yaml_file, _lazy_frame,
                   _currencies_frame, builds, res>>

\* MarketData.currencies: if self._currencies_frame is None:
CurCheck(c) ==
    /\ pc[c] = "cur_check" /\ MayStep(c)
    /\ Goto(c, IF _currencies_frame = None THEN "cur_load" ELSE "cur_return")
    /\ UNCHANGED <<parquet_files, csv_files, yaml_file, _lazy_frame,
                   _currencies_frame, builds, local, res>>

\* MarketData.currencies: open and load the file, build and store the frame.
\* A missing file raises out of the property, out of df and out of the query.
CurLoad(c) ==
    /\ pc[c] = "cur_load" /\ MayStep(c)
    /\ IF yaml_file = None
       THEN /\ Goto(c, "done")
            /\ res' = [res EXCEPT ![c] =
                          Raised("ConfigurationError", local[c])]
            /\ local' = [local EXCEPT ![c] = <<>>]
            /\ UNCHANGED _currencies_frame
       ELSE /\ Goto(c, "cur_return")
            /\ _currencies_frame' = Some(CurrencyRows(yaml_file[1]))
            /\ UNCHANGED <<res, local>>
    /\ UNCHANGED <<parquet_files, csv_files, yaml_file, _lazy_frame, builds>>

\* MarketData.currencies: return self._currencies_frame
CurReturn(c) ==
    /\ pc[c] = "cur_return" /\ MayStep(c)
    /\ local' = [local EXCEPT ![c].cur = _currencies_frame]
    /\ Goto(c, "df_store")
    /\ UNCHANGED <<parquet_files, csv_files, yaml_file, _lazy_frame,
                   _currencies_frame, builds, res>>

\* MarketData.df: self._lazy_frame = (raw_data.join(...) ... .select(...)):
\* a new LazyFrame (a plan over the file paths and the currencies frame) is
\* constructed and stored; no file is read.
DfStore(c) ==
    /\ pc[c] = "df_store" /\ MayStep(c)
    /\ builds' = builds + 1
    /\ _lazy_frame' = Some([id |-> builds', currencies |-> local[c].cur[1]])
    /\ local' = [local EXCEPT ![c].stored = builds']
    /\ Goto(c, "df_return")
    /\ UNCHANGED <<parquet_files, csv_files, yaml_file, _currencies_frame, res>>

\* MarketData.df: return self._lazy_frame
DfReturn(c) ==
    /\ pc[c] = "df_return" /\ MayStep(c)
    /\ local' = [local EXCEPT ![c].dfs = Append(@, _lazy_frame[1])]
    /\ Goto(c, IF Len(local[c].dfs) + 1 < local[c].need
               THEN "df_check" ELSE "collect")
    /\ UNCHANGED <<parquet_files, csv_files, yaml_file, _lazy_frame,
                   _currencies_frame, builds, res>>

\* .collect(): the plan is evaluated on the files as they are now. A Date
\* that does not parse raises out of the query.
Collect(c) ==
    /\ pc[c] = "collect" /\ MayStep(c)
    /\ res' = [res EXCEPT ![c] =
                  IF CsvParseFails(csv_files)
                  THEN Raised("SourceParseError", local[c])
                  ELSE Returned(MarketData_df(parquet_files, csv_files,
                                              local[c].dfs[1].currencies),
                                local[c])]
    /\ local' = [local EXCEPT ![c] = <<>>]
    /\ Goto(c, "done")
    /\ UNCHANGED <<parquet_files, csv_files, yaml_file, _lazy_frame,
                   _currencies_frame, builds>>

\* The environment: the scraper rewrites the snapshot files, someone edits a
\* text file or the configuration.
WriteParquet ==
    /\ parquet_files' \in LifeParquet \ {parquet_files}
    /\ UNCHANGED <<csv_files, yaml_file, _lazy_frame, _currencies_frame, builds,
                   pc, local, res>>

WriteCsv ==
    /\ csv_files' \in LifeCsv \ {csv_files}
    /\ UNCHANGED <<parquet_files, yaml_file, _lazy_frame, _currencies_frame, builds,
                   pc, local, res>>

WriteYaml ==
    /\ yaml_file' \in LifeYaml \ {yaml_file}
    /\ UNCHANGED <<parquet_files, csv_files, _lazy_frame, _currencies_frame, builds,
                   pc, local, res>>

Next ==
    \/ \E c \in Callers :
          \/ Call(c) \/ DfCheck(c) \/ CurCheck(c) \/ CurLoad(c)
          \/ CurReturn(c) \/ DfStore(c) \/ DfReturn(c) \/ Collect(c)
    \/ WriteParquet \/ WriteCsv \/ WriteYaml

Spec == Init /\ [][Next]_vars

----------------------------------------------------------------------------
(* Properties of the cache slot (Spec).                                    *)

Finished(c) == pc[c] = "done" /\ res[c] # <<>>
GotFrame(c) == Finished(c) /\ res[c].kind = "frame"
Failed(c) == Finished(c) /\ res[c].kind = "error"

\* The plans df has handed to callers so far.
Obtained ==
    UNION {IF Running(c) THEN {local[c].dfs[i].id : i \in 1..Len(local[c].dfs)}
           ELSE IF Finished(c) THEN res[c].ids ELSE {} : c \in Callers}

\* C3: whatever the interleaving of the callers' checks of the slot and
\* their writes to it, at most one plan is ever built and every caller
\* obtains the same plan instance.
C3_Original == builds <= 1 /\ Cardinality(Obtained) <= 1

\* C4: a query that ran the build branch of df and ended with an exception
\* has stored nothing in the cache slot.
C4_Original == \A c \in Callers : (Failed(c) /\ res[c].attempted) => res[c].stored = 0

\* C5: all queries that returned a frame have observed the same dataset
\* contents, whatever happened to the files in between.
C5_Original ==
    \A c1, c2 \in Callers :
        (GotFrame(c1) /\ GotFrame(c2)) => res[c1].rows = res[c2].rows

----------------------------------------------------------------------------
(* SpecBuild: the dataset build as a function of the files and the table.  *)

InitBuild ==
    /\ \E k \in 0..MaxRows :
          /\ parquet_files \in SeqsUpTo(ParquetRows, k)
          /\ csv_files \in CsvFileSets(MaxRows - k, {DateFormat})
    /\ yaml_file \in {Some(d) : d \in Dicts}
    /\ _lazy_frame = None
    /\ _currencies_frame = None
    /\ builds = 0
    /\ pc = Idle
    /\ local = NoLocal
    /\ res = NoRes

\* One caller runs Tickers.df.collect() from start to end.
BuildAndCollect ==
    /\ pc[1] = "idle"
    /\ _currencies_frame' = Some(CurrencyRows(yaml_file[1]))
    /\ builds' = builds + 1
    /\ _lazy_frame' = Some([id |-> builds', currencies |-> _currencies_frame'[1]])
    /\ pc' = [pc EXCEPT ![1] = "done"]
    /\ res' = [res EXCEPT ![1] =
                  [kind |-> "frame",
                   rows |-> MarketData_df(parquet_files, csv_files,
                                          _currencies_frame'[1]),
                   attempted |-> TRUE, stored |-> builds', ids |-> {builds'}]]
    /\ UNCHANGED <<parquet_files, csv_files, yaml_file, local>>

NextBuild == BuildAndCollect

SpecBuild == InitBuild /\ [][NextBuild]_vars

----------------------------------------------------------------------------
(* api.py and query_logic.py: the queries, as functions of the collected   *)
(* frame df.  A date parameter is None or a string <<format, day>>; the    *)
(* empty string is <<"", 0>>.  Python's truth test "if x" holds for a      *)
(* string that is not empty and for every datetime.                        *)

EmptyDate == <<"", 0>>
Truthy(p) == p # None /\ p[1] # ""
TruthyDate(p) == p # None /\ p[1] # EmptyDate

\* (x / y).round(3) on Float64 cells that hold non-negative numbers: null if
\* either is null, NaN for 0/0, inf for x/0, else the quotient in
\* thousandths, rounded to the nearest.
Ratio3(x, y) ==
    IF x = None \/ y = None THEN [kind |-> "null", milli |-> 0]
    ELSE IF y[1] = 0
         THEN [kind |-> IF x[1] = 0 THEN "NaN" ELSE "inf", milli |-> 0]
         ELSE [kind |-> "num", milli |-> (2000 * x[1] + y[1]) \div (2 * y[1])]

\* Variant: the upper date bound is exclusive.
api_get_prices_ExclusiveEnd(df, ticker, start_date, end_date) ==
    LET sd == strptime(start_date)
        ed == strptime(end_date)
        rows == SelectSeq(df, LAMBDA r : /\ r.Ticker = Some(ticker)
                                         /\ r.Date >= sd
                                         /\ r.Date < ed)
    IN  Map(LAMBDA r : [date |-> strftime(r.Date), price |-> r.Close], rows)

\* api.get_prices (after both dates parsed)
api_get_prices(df, ticker, start_date, end_date) ==
    LET sd == strptime(start_date)
        ed == strptime(end_date)
        rows == SelectSeq(df, LAMBDA r : /\ r.Ticker = Some(ticker)
                                         /\ r.Date >= sd
                                         /\ r.Date <= ed)
    IN  Map(LAMBDA r : [date |-> strftime(r.Date), price |-> r.Close], rows)

\* query_logic.get_prices
query_logic_get_prices(df, ticker, start_date, end_date) ==
    LET sd == strptime(start_date)
        ed == strptime(end_date)
        rows == SelectSeq(df, LAMBDA r : /\ r.Ticker = Some(ticker)
                                         /\ r.Date >= sd
                                         /\ r.Date <= ed)
    IN  Map(LAMBDA r : [date |-> strftime(r.Date), price |-> r.Close], rows)

\* Variant: a left join, every row of the first ticker is kept.
JoinOnDate_Left(left, right) ==
    FlatMap(LAMBDA l :
                LET ms == SelectSeq(right, LAMBDA r : r.Date = l.Date)
                IN  IF ms = <<>>
                    THEN <<[Date |-> l.Date, Ticker |-> l.Ticker,
                            MarketCap |-> l.MarketCap, Close |-> l.Close,
                            Ticker_right |-> None, MarketCap_right |-> None,
                            Close_right |-> None]>>
                    ELSE Map(LAMBDA r : [Date |-> l.Date, Ticker |-> l.Ticker,
                                         MarketCap |-> l.MarketCap, Close |-> l.Close,
                                         Ticker_right |-> r.Ticker,
                                         MarketCap_right |-> r.MarketCap,
                                         Close_right |-> r.Close], ms),
            left)

\* .join(<frame of ticker2>, on="Date", how="inner"): one row per pair of a
\* left and a right row with the same Date; the right columns get "_right".
JoinOnDate(left, right) ==
    FlatMap(LAMBDA l :
                Map(LAMBDA r : [Date |-> l.Date, Ticker |-> l.Ticker,
                                MarketCap |-> l.MarketCap, Close |-> l.Close,
                                Ticker_right |-> r.Ticker,
                                MarketCap_right |-> r.MarketCap,
                                Close_right |-> r.Close],
                    SelectSeq(right, LAMBDA r : r.Date = l.Date)),
            left)

\* api.get_ratio: df1 and df2 are the two evaluations of Tickers.df.
api_get_ratio(df1, df2, ticker1, ticker2, start_date, end_date) ==
    LET sd == strptime(start_date)
        ed == strptime(end_date)
        joined == JoinOnDate(SelectSeq(df1, LAMBDA r : r.Ticker = Some(ticker1)),
                             SelectSeq(df2, LAMBDA r : r.Ticker = Some(ticker2)))
        rows == SelectSeq(joined, LAMBDA r : r.Date >= sd /\ r.Date <= ed)
    IN  Map(LAMBDA r : [date |-> strftime(r.Date),
                        ratio |-> Ratio3(r.MarketCap, r.MarketCap_right)], rows)

\* query_logic.get_ratio: the same, on the Close columns.
query_logic_get_ratio(df1, df2, ticker1, ticker2, start_date, end_date) ==
    LET sd == strptime(start_date)
        ed == strptime(end_date)
        joined == JoinOnDate(SelectSeq(df1, LAMBDA r : r.Ticker = Some(ticker1)),
                             SelectSeq(df2, LAMBDA r : r.Ticker = Some(ticker2)))
        rows == SelectSeq(joined, LAMBDA r : r.Date >= sd /\ r.Date <= ed)
    IN  Map(LAMBDA r : [date |-> strftime(r.Date),
                        ratio |-> Ratio3(r.Close, r.Close_right)], rows)

\* Variant: the ticker filter is applied only when no date bound is given.
api_get_marketcap_TickerOrDates(df, ticker, start_date, end_date) ==
    LET sd == IF TruthyDate(start_date) THEN Some(strptime(start_date[1])) ELSE None
        ed == IF TruthyDate(end_date) THEN Some(strptime(end_date[1])) ELSE None
        f1 == SelectSeq(df, LAMBDA r : IF sd # None THEN r.Date >= sd[1] ELSE TRUE)
        f2 == SelectSeq(f1, LAMBDA r : IF ed # None THEN r.Date <= ed[1] ELSE TRUE)
        f3 == IF Truthy(ticker) /\ sd = None /\ ed = None
              THEN SelectSeq(f2, LAMBDA r : r.Ticker = Some(ticker[1]))
              ELSE f2
    IN  Map(LAMBDA r : [date |-> strftime(r.Date), market_cap |-> r.MarketCap], f3)

\* api.get_marketcap
api_get_marketcap(df, ticker, start_date, end_date) ==
    LET sd == IF TruthyDate(start_date) THEN Some(strptime(start_date[1])) ELSE None
        ed == IF TruthyDate(end_date) THEN Some(strptime(end_date[1])) ELSE None
        f1 == SelectSeq(df, LAMBDA r : IF sd # None THEN r.Date >= sd[1] ELSE TRUE)
        f2 == SelectSeq(f1, LAMBDA r : IF ed # None THEN r.Date <= ed[1] ELSE TRUE)
        f3 == IF Truthy(ticker)
              THEN SelectSeq(f2, LAMBDA r : r.Ticker = Some(ticker[1]))
              ELSE f2
    IN  Map(LAMBDA r : [date |-> strftime(r.Date), market_cap |-> r.MarketCap], f3)

\* query_logic.get_marketcap
query_logic_get_marketcap(df, ticker, start_date, end_date) ==
    LET sd == IF TruthyDate(start_date) THEN Some(strptime(start_date[1])) ELSE None
        ed == IF TruthyDate(end_date) THEN Some(strptime(end_date[1])) ELSE None
        f1 == SelectSeq(df, LAMBDA r : IF sd # None THEN r.Date >= sd[1] ELSE TRUE)
        f2 == SelectSeq(f1, LAMBDA r : IF ed # None THEN r.Date <= ed[1] ELSE TRUE)
        f3 == IF Truthy(ticker)
              THEN SelectSeq(f2, LAMBDA r : r.Ticker = Some(ticker[1]))
              ELSE f2
    IN  Map(LAMBDA r : [date |-> strftime(r.Date), market_cap |-> r.MarketCap], f3)

----------------------------------------------------------------------------
(* SpecQuery: one query, run from its first line to its return, against    *)
(* the dataset of arbitrary bounded snapshot files.                        *)

WireDates == {Wire(d) : d \in Dates}
OptDates == {None, Some(EmptyDate)} \cup {Some(w) : w \in WireDates}
OptTickers == {None, Some("")} \cup {Some(t) : t \in TickerSyms}

InitQuery ==
    /\ parquet_files \in SeqsUpTo(ParquetRows, MaxRows)
    /\ csv_files = <<>>
    /\ yaml_file = Some([t \in {"A"} |-> MaxMult])
    /\ _lazy_frame = None
    /\ _currencies_frame = None
    /\ builds = 0
    /\ pc = Idle
    /\ local = NoLocal
    /\ res = NoRes

\* Tickers.df, run alone: the currencies frame and the plan after the access.
CurrenciesAfter ==
    IF _currencies_frame = None THEN Some(CurrencyRows(yaml_file[1]))
    ELSE _currencies_frame
LazyFrameAfter ==
    IF _lazy_frame = None
    THEN Some([id |-> builds + 1, currencies |-> CurrenciesAfter[1]])
    ELSE _lazy_frame

\* The query touches Tickers.df and collects what it returns.
AccessDf ==
    /\ _currencies_frame' = IF _lazy_frame = None THEN CurrenciesAfter
                            ELSE _currencies_frame
    /\ _lazy_frame' = LazyFrameAfter
    /\ builds' = IF _lazy_frame = None THEN builds + 1 ELSE builds

Collected == MarketData_df(parquet_files, csv_files, LazyFrameAfter[1].currencies)

\* datetime.strptime raises on None (TypeError) before df is touched.
RaiseBeforeDf(impl, op, args) ==
    /\ res' = [res EXCEPT ![1] = [kind |-> "error", error |-> "InputValidationError",
                                  impl |-> impl, op |-> op, args |-> args]]
    /\ UNCHANGED <<_lazy_frame, _currencies_frame, builds>>

Return(impl, op, args, value) ==
    /\ res' = [res EXCEPT ![1] = [kind |-> "result", impl |-> impl, op |-> op,
                                  args |-> args, value |-> value,
                                  rows |-> Collected]]
    /\ AccessDf

GetPrices(impl) ==
    /\ pc[1] = "idle"
    /\ \E ticker \in TickerSyms, start_date, end_date \in {None} \cup WireDates :
          LET args == [ticker |-> ticker, start_date |-> start_date,
                       end_date |-> end_date] IN
          IF start_date = None \/ end_date = None
          THEN RaiseBeforeDf(impl, "get_prices", args)
          ELSE Return(impl, "get_prices", args,
                      IF impl = "api"
                      THEN api_get_prices(Collected, ticker, start_date, end_date)
                      ELSE query_logic_get_prices(Collected, ticker, start_date,
                                                  end_date))
    /\ pc' = [pc EXCEPT ![1] = "done"]
    /\ UNCHANGED <<parquet_files, csv_files, yaml_file, local>>

GetRatio(impl) ==
    /\ pc[1] = "idle"
    /\ \E ticker1, ticker2 \in TickerSyms, start_date, end_date \in {None} \cup WireDates :
          LET args == [ticker1 |-> ticker1, ticker2 |-> ticker2,
                       start_date |-> start_date, end_date |-> end_date] IN
          IF start_date = None \/ end_date = None
          THEN RaiseBeforeDf(impl, "get_ratio", args)
          ELSE Return(impl, "get_ratio", args,
                      IF impl = "api"
                      THEN api_get_ratio(Collected, Collected, ticker1, ticker2,
                                         start_date, end_date)
                      ELSE query_logic_get_ratio(Collected, Collected, ticker1,
                                                 ticker2, start_date, end_date))
    /\ pc' = [pc EXCEPT ![1] = "done"]
    /\ UNCHANGED <<parquet_files, csv_files, yaml_file, local>>

GetMarketCap(impl) ==
    /\ pc[1] = "idle"
    /\ \E ticker \in OptTickers, start_date, end_date \in OptDates :
          LET args == [ticker |-> ticker, start_date |-> start_date,
                       end_date |-> end_date] IN
          Return(impl, "get_marketcap", args,
                 IF impl = "api"
                 THEN api_get_marketcap(Collected, ticker, start_date, end_date)
                 ELSE query_logic_get_marketcap(Collected, ticker, start_date,
                                                end_date))
    /\ pc' = [pc EXCEPT ![1] = "done"]
    /\ UNCHANGED <<parquet_files, csv_files, yaml_file, local>>

NextQuery ==
    \E impl \in Impls : GetPrices(impl) \/ GetRatio(impl) \/ GetMarketCap(impl)

SpecQuery == InitQuery /\ [][NextQuery]_vars

----------------------------------------------------------------------------
(* Properties of the queries (SpecQuery).                                  *)

Answered(op) == pc[1] = "done" /\ res[1].kind = "result" /\ res[1].op = op
Dataset == res[1].rows
Answer == res[1].value
Arg == res[1].args
DayOf(w) == w[2]
DatesOfTicker(t) ==
    {Dataset[j].Date : j \in {k \in 1..Len(Dataset) : Dataset[k].Ticker = Some(t)}}
Occurrences(seq, x) == Cardinality({i \in 1..Len(seq) : seq[i] = x})

\* C7: the dates get_ratio returns (either implementation) are exactly the
\* dates that both tickers have a row on and that lie in [start, end].
C7_RatioDates ==
    Answered("get_ratio") =>
        {Answer[i].date : i \in 1..Len(Answer)} =
            {Wire(d) : d \in {x \in DatesOfTicker(Arg.ticker1) \cap
                                    DatesOfTicker(Arg.ticker2) :
                                 /\ DayOf(Arg.start_date) <= x
                                 /\ x <= DayOf(Arg.end_date)}}

\* C7 witness: a ratio query between two different tickers that returned a
\* date while one of the tickers has a row on another date.
C7_Witness ==
    /\ Answered("get_ratio")
    /\ Arg.ticker1 # Arg.ticker2
    /\ Len(Answer) > 0

\* x is the quotient a / b of two Float64 cells rounded to 3 decimals.
IsRatio3(x, a, b) ==
    IF a = None \/ b = None THEN x.kind = "null"
    ELSE IF b[1] = 0 THEN x.kind = (IF a[1] = 0 THEN "NaN" ELSE "inf")
         ELSE /\ x.kind = "num"
              /\ 2 * (1000 * a[1] - x.milli * b[1]) <= b[1]
              /\ 2 * (x.milli * b[1] - 1000 * a[1]) <= b[1]

\* C8: every row get_ratio returns, in api.py and in query_logic.py alike,
\* carries marketCap of a ticker1 row / marketCap of a ticker2 row of its
\* date, rounded to 3 decimals.
C8_Original ==
    Answered("get_ratio") =>
        \A i \in 1..Len(Answer) :
            \E j, k \in 1..Len(Dataset) :
                /\ Dataset[j].Ticker = Some(Arg.ticker1)
                /\ Dataset[k].Ticker = Some(Arg.ticker2)
                /\ Wire(Dataset[j].Date) = Answer[i].date
                /\ Dataset[k].Date = Dataset[j].Date
                /\ IsRatio3(Answer[i].ratio, Dataset[j].MarketCap,
                            Dataset[k].MarketCap)

\* C9: get_prices returns, each as often as it occurs, the (date, close)
\* pairs of the dataset rows of the ticker with start <= date <= end, and
\* nothing else.
PricePair(r) == [date |-> Wire(r.Date), price |-> r.Close]
InPriceRange(r) ==
    /\ r.Ticker = Some(Arg.ticker)
    /\ DayOf(Arg.start_date) <= r.Date
    /\ r.Date <= DayOf(Arg.end_date)
C9_PricesExact ==
    Answered("get_prices") =>
        \A x \in Range(Answer) \cup {PricePair(Dataset[j]) : j \in 1..Len(Dataset)} :
            Occurrences(Answer, x) =
                Cardinality({j \in 1..Len(Dataset) :
                                InPriceRange(Dataset[j]) /\ PricePair(Dataset[j]) = x})

\* C9 witness: a price query that returned a row and left out a row of the
\* same ticker that lies outside the range.
C9_Witness ==
    /\ Answered("get_prices")
    /\ Len(Answer) > 0
    /\ \E j \in 1..Len(Dataset) :
          /\ Dataset[j].Ticker = Some(Arg.ticker)
          /\ ~InPriceRange(Dataset[j])

\* C10: get_marketcap returns, each as often as it occurs, the (date,
\* marketCap) pairs of the rows that pass each supplied filter: ticker
\* equality, date >= start_date, date <= end_date; an absent parameter (None
\* or the empty string) filters nothing.
GivenTicker(p) == p \notin {None, Some("")}
GivenDate(p) == p \notin {None, Some(EmptyDate)}
CapPair(r) == [date |-> Wire(r.Date), market_cap |-> r.MarketCap]
PassesFilters(r) ==
    /\ GivenTicker(Arg.ticker) => r.Ticker = Arg.ticker
    /\ GivenDate(Arg.start_date) => r.Date >= DayOf(Arg.start_date[1])
    /\ GivenDate(Arg.end_date) => r.Date <= DayOf(Arg.end_date[1])
C10_MarketCapFilters ==
    Answered("get_marketcap") =>
        \A x \in Range(Answer) \cup {CapPair(Dataset[j]) : j \in 1..Len(Dataset)} :
            Occurrences(Answer, x) =
                Cardinality({j \in 1..Len(Dataset) :
                                PassesFilters(Dataset[j]) /\ CapPair(Dataset[j]) = x})

\* C10 witness: no ticker, no start date, an end date: a row at or before it is returned
\* and a later row is left out.
C10_Witness ==
    /\ Answered("get_marketcap")
    /\ Arg.ticker = None /\ Arg.start_date = None /\ GivenDate(Arg.end_date)
    /\ Len(Answer) > 0
    /\ \E j \in 1..Len(Dataset) : Dataset[j].Date > DayOf(Arg.end_date[1])

----------------------------------------------------------------------------
(* Properties of the build (SpecBuild).                                    *)

\* The cells the two sources hold, as stored: a text file's Date by its day,
\* the cells of a column the file lacks null.
CsvCells ==
    UNION {{[Date |-> r.Date[2], Ticker |-> r.Ticker, Close |-> r.Close,
             MarketCap |-> r.MarketCap, stem |-> csv_files[i].stem] :
               r \in Range(csv_files[i].rows)} : i \in 1..Len(csv_files)}
SourceCells ==
    Range(parquet_files) \cup
    {[Date |-> c.Date, Ticker |-> c.Ticker, Close |-> c.Close,
      MarketCap |-> c.MarketCap] : c \in CsvCells}

Built == pc[1] = "done" /\ res[1] # <<>> /\ res[1].kind = "frame"
Merged == res[1].rows
HasEntry(t) == t # None /\ t[1] \in DOMAIN yaml_file[1]
MergedAt(d, t) == {i \in 1..Len(Merged) : Merged[i].Date = d /\ Merged[i].Ticker = t}
SourceAt(d, t) == {s \in SourceCells : s.Date = d /\ s.Ticker = t}
AllTickers == {None} \cup {Some(t) : t \in TickerSyms}

\* C1: every merged row of a ticker with a multiplier entry and a non-null
\* close has marketCap = close * multiplier; every merged row of a ticker
\* without entry carries the marketCap of a source row with its date, ticker
\* and close.
C1_MarketCapRule ==
    Built =>
        \A i \in 1..Len(Merged) :
            LET m == Merged[i] IN
            IF HasEntry(m.Ticker)
            THEN m.Close # None =>
                    m.MarketCap = Some(m.Close[1] * yaml_file[1][m.Ticker[1]])
            ELSE \E s \in SourceCells :
                    /\ s.Date = m.Date /\ s.Ticker = m.Ticker
                    /\ s.Close = m.Close /\ s.MarketCap = m.MarketCap

\* C1 witness: a merged row whose multiplier-derived marketCap replaced a
\* different, non-null marketCap of its only source row.
C1_Witness ==
    /\ Built
    /\ \E i \in 1..Len(Merged) :
          /\ HasEntry(Merged[i].Ticker)
          /\ Merged[i].Close # None
          /\ \A s \in SourceAt(Merged[i].Date, Merged[i].Ticker) :
                s.MarketCap # None /\ s.MarketCap # Merged[i].MarketCap

\* C2 as stated: per (date, ticker), the merged dataset holds one row for
\* each distinct (close, marketCap) pair of the source rows: equal pairs
\* collapse, different pairs all survive, whatever the ticker.
C2_Original ==
    Built =>
        \A d \in Dates, t \in AllTickers :
            Cardinality(MergedAt(d, t)) =
                Cardinality({<<s.Close, s.MarketCap>> : s \in SourceAt(d, t)})

\* C2 amended: for a ticker without multiplier entry, one merged row per
\* distinct (close, marketCap) pair of the source rows; for a ticker with an
\* entry, one merged row per distinct close (source rows that differ only in
\* marketCap collapse, the marketCap being recomputed from close).
C2_DedupAfterAdjust ==
    Built =>
        \A d \in Dates, t \in AllTickers :
            Cardinality(MergedAt(d, t)) =
                Cardinality({IF HasEntry(t) THEN <<s.Close>>
                             ELSE <<s.Close, s.MarketCap>> : s \in SourceAt(d, t)})

\* C2 witness: two source rows of one (date, ticker) that differ in marketCap
\* only, the ticker without entry, both in the merged dataset.
C2_Witness ==
    /\ Built
    /\ \E d \in Dates, t \in AllTickers :
          /\ ~HasEntry(t)
          /\ Cardinality(MergedAt(d, t)) = 2
          /\ Cardinality({s.Close : s \in SourceAt(d, t)}) = 1

----------------------------------------------------------------------------
(* api.py and query_logic.py: the two queries over the whole dataset.      *)

\* pl.col("Date").min() / .max() over the collected frame: null (None in
\* to_dicts()) when the frame has no row.
DateMin_FirstRow(df) == IF df = <<>> THEN None ELSE Some(df[1].Date)
DateMin(df) ==
    IF df = <<>> THEN None
    ELSE Some(CHOOSE d \in {df[i].Date : i \in 1..Len(df)} :
                 \A j \in 1..Len(df) : d <= df[j].Date)
DateMax(df) ==
    IF df = <<>> THEN None
    ELSE Some(CHOOSE d \in {df[i].Date : i \in 1..Len(df)} :
                 \A j \in 1..Len(df) : d >= df[j].Date)

\* api.get_date_range: None stands for the AttributeError that
\* date_range["min_date"].strftime raises when min_date is None.
api_get_date_range(df) ==
    LET date_range == [min_date |-> DateMin(df), max_date |-> DateMax(df)] IN
    IF date_range.min_date = None \/ date_range.max_date = None THEN None
    ELSE Some([min_date |-> strftime(date_range.min_date[1]),
               max_date |-> strftime(date_range.max_date[1])])

\* query_logic.get_date_range
query_logic_get_date_range(df) ==
    LET date_range == [min_date |-> DateMin(df), max_date |-> DateMax(df)] IN
    IF date_range.min_date = None \/ date_range.max_date = None THEN None
    ELSE Some([min_date |-> strftime(date_range.min_date[1]),
               max_date |-> strftime(date_range.max_date[1])])

\* The order of .sort("Ticker"): nulls first, then strings ascending.
TickerOrder == <<"A", "B">>
TickerRank(t) ==
    IF t = None THEN 0
    ELSE CHOOSE i \in 1..Len(TickerOrder) : TickerOrder[i] = t[1]

\* Variant: the Ticker column is not de-duplicated.
UniqueTickers_KeepAll(col, seen) == col

\* .select("Ticker").unique()
RECURSIVE UniqueTickers(_, _)
UniqueTickers(col, seen) ==
    IF col = <<>> THEN <<>>
    ELSE IF Head(col) \in seen THEN UniqueTickers(Tail(col), seen)
         ELSE <<Head(col)>> \o UniqueTickers(Tail(col), seen \cup {Head(col)})

\* .sort("Ticker")
RECURSIVE InsertTicker(_, _)
InsertTicker(t, s) ==
    IF s = <<>> THEN <<t>>
    ELSE IF TickerRank(Head(s)) <= TickerRank(t)
         THEN <<Head(s)>> \o InsertTicker(t, Tail(s))
         ELSE <<t>> \o s

RECURSIVE SortTicker(_)
SortTicker(s) ==
    IF s = <<>> THEN <<>>
    ELSE InsertTicker(s[Len(s)], SortTicker(SubSeq(s, 1, Len(s) - 1)))

\* api.get_available_tickers: unique_tickers["Ticker"].to_list(); a null
\* cell is the list element None.
api_get_available_tickers(df) ==
    SortTicker(UniqueTickers(Map(LAMBDA r : r.Ticker, df), {}))

\* query_logic.get_available_tickers
query_logic_get_available_tickers(df) ==
    SortTicker(UniqueTickers(Map(LAMBDA r : r.Ticker, df), {}))

----------------------------------------------------------------------------
(* SpecWhole: one whole-dataset query, run from its first line to its      *)
(* return, against the dataset of arbitrary bounded files of both sources. *)

InitWhole ==
    /\ \E k \in 0..MaxRows :
          /\ parquet_files \in SeqsUpTo(ParquetRows, k)
          /\ csv_files \in CsvFileSets(MaxRows - k, {DateFormat})
    /\ yaml_file = Some([t \in {"A"} |-> MaxMult])
    /\ _lazy_frame = None
    /\ _currencies_frame = None
    /\ builds = 0
    /\ pc = Idle
    /\ local = NoLocal
    /\ res = NoRes

\* The query raises after Tickers.df was read and the frame collected.
RaiseAfterDf(impl, op, error) ==
    /\ res' = [res EXCEPT ![1] = [kind |-> "error", error |-> error,
                                  impl |-> impl, op |-> op, args |-> <<>>,
                                  rows |-> Collected]]
    /\ AccessDf

GetDateRange(impl) ==
    /\ pc[1] = "idle"
    /\ LET value == IF impl = "api" THEN api_get_date_range(Collected)
                    ELSE query_logic_get_date_range(Collected) IN
       IF value = None
       THEN RaiseAfterDf(impl, "get_date_range", "AttributeError")
       ELSE Return(impl, "get_date_range", <<>>, value[1])
    /\ pc' = [pc EXCEPT ![1] = "done"]
    /\ UNCHANGED <<parquet_files, csv_files, yaml_file, local>>

GetAvailableTickers(impl) ==
    /\ pc[1] = "idle"
    /\ Return(impl, "get_available_tickers", <<>>,
              IF impl = "api" THEN api_get_available_tickers(Collected)
              ELSE query_logic_get_available_tickers(Collected))
    /\ pc' = [pc EXCEPT ![1] = "done"]
    /\ UNCHANGED <<parquet_files, csv_files, yaml_file, local>>

NextWhole ==
    \E impl \in Impls : GetDateRange(impl) \/ GetAvailableTickers(impl)

SpecWhole == InitWhole /\ [][NextWhole]_vars

----------------------------------------------------------------------------
(* Properties of the whole-dataset queries (SpecWhole).                    *)

Ran(op) == pc[1] = "done" /\ res[1].op = op
DatasetDates == {Dataset[i].Date : i \in 1..Len(Dataset)}

\* C11: get_date_range (either implementation) on a dataset with at least
\* one row returns min_date and max_date, the smallest and the largest Date
\* of the dataset's rows over all tickers, so min_date <= max_date; on a
\* dataset with zero rows it raises an error and returns no dates.
C11_DateRange ==
    Ran("get_date_range") =>
        IF Dataset = <<>> THEN res[1].kind = "error"
        ELSE /\ res[1].kind = "result"
             /\ Answer.min_date \in {Wire(d) : d \in DatasetDates}
             /\ Answer.max_date \in {Wire(d) : d \in DatasetDates}
             /\ \A d \in DatasetDates :
                   DayOf(Answer.min_date) <= d /\ d <= DayOf(Answer.max_date)
             /\ DayOf(Answer.min_date) <= DayOf(Answer.max_date)

\* C11 witness: a date range was returned over rows of two tickers coming
\* from both sources, with min_date strictly before max_date.
C11_Witness ==
    /\ Ran("get_date_range")
    /\ res[1].kind = "result"
    /\ parquet_files # <<>> /\ CsvCells # {}
    /\ Cardinality({Dataset[i].Ticker : i \in 1..Len(Dataset)}) = 2
    /\ DayOf(Answer.min_date) < DayOf(Answer.max_date)

\* The list is ascending in the order of .sort("Ticker") and repeats nothing.
AscendingNoRepeat(list) ==
    \A i, j \in 1..Len(list) : i < j => TickerRank(list[i]) < TickerRank(list[j])

====
